---- MODULE Spec2Model ----
(***************************************************************************)
(* Model of scripts/mcp-server.py: the lifespan that builds the            *)
(* BlockchainContext, sign_and_send_transaction, and the two tools         *)
(* generate_legal_document and verify_document, together with the ledger   *)
(* the web3 provider talks to.                                             *)
(*                                                                         *)
(* Strings the code manipulates character by character (identifiers,      *)
(* digests) are sequences of one-character strings.                        *)
(*                                                                         *)
(* Both tools are coroutines without a single await: every web3 call in    *)
(* them is a blocking call, so the event loop runs one tool call from its  *)
(* first line to its return before another tool call gets to run.  The     *)
(* ledger (mining) moves on its own between the steps of a call.           *)
(***************************************************************************)
EXTENDS Integers, Sequences, FiniteSets, TLC

\* ------------------------------------------------------------------ bounds
NumTasks == 2          \* tool calls the host dispatches in one run
MaxLogs == 2           \* log entries in one receipt
MaxPrefixLen == 2      \* free leading characters of a document_id

\* ---------------------------------------------------------- program constants
LjustWidth == 64       \* document_id.ljust(64, '0')
UuidPrefixLen == 24    \* uuid.uuid4().hex[:24]
RequestIdDefault == 1  \* request_id = 1  # Default fallback
Bytes32Len == 32       \* bytes32 arguments of the registry ABI

Tasks == 1..NumTasks

\* an absent value (None, an unset local) and a present one
None == <<>>
Some(x) == <<x>>

\* ------------------------------------------------------------ string helpers
Rep(c, n) == [i \in 1..n |-> c]

HexDigits == {"0", "1", "2", "3", "4", "5", "6", "7", "8", "9",
              "a", "b", "c", "d", "e", "f"}

Prefix0x == <<"0", "x">>

\* str.startswith("0x")
StartsWith0x(s) == Len(s) >= 2 /\ s[1] = "0" /\ s[2] = "x"

\* str.ljust(width, fill): pads on the right, never truncates
Ljust(s, width, fill) ==
    IF Len(s) >= width THEN s ELSE s \o Rep(fill, width - Len(s))

\* document_type.upper()
Upper(document_type) ==
    CASE document_type = "nda" -> "NDA"
      [] document_type = "NDA" -> "NDA"
      [] OTHER -> document_type

DocTypes == {"nda"}
RequirementTexts == {"terms"}

\* the f-string of lines 223-230: the text is fixed by the upper-cased type
\* and the requirements
DocumentContent(document_type, requirements) ==
    <<Upper(document_type), requirements>>

GeneratedContents ==
    {DocumentContent(d, r) : d \in DocTypes, r \in RequirementTexts}

AlteredContent == <<"NDA", "terms, altered">>
Contents == GeneratedContents \cup {AlteredContent}

\* Web3.keccak(text=...).hex(): "0x" and 64 hex digits, one digest per text
KeccakDigit(content) ==
    CASE content = <<"NDA", "terms">> -> "a"
      [] content = <<"NDA", "terms, altered">> -> "b"
      [] OTHER -> "c"

KeccakHex(content) == Prefix0x \o Rep(KeccakDigit(content), 2 * Bytes32Len)

HexValue(ch) ==
    CASE ch = "0" -> 0 [] ch = "1" -> 1 [] ch = "2" -> 2 [] ch = "3" -> 3
      [] ch = "4" -> 4 [] ch = "5" -> 5 [] ch = "6" -> 6 [] ch = "7" -> 7
      [] ch = "8" -> 8 [] ch = "9" -> 9 [] ch = "a" -> 10 [] ch = "b" -> 11
      [] ch = "c" -> 12 [] ch = "d" -> 13 [] ch = "e" -> 14 [] ch = "f" -> 15

DigitOf(n) ==
    <<"0", "1", "2", "3", "4", "5", "6", "7", "8", "9",
      "a", "b", "c", "d", "e", "f">>[(n % 16) + 1]

\* int(h, 16) of a hex body (no prefix)
RECURSIVE HexToInt(_)
HexToInt(h) ==
    IF h = <<>> THEN 0
    ELSE 16 * HexToInt(SubSeq(h, 1, Len(h) - 1)) + HexValue(h[Len(h)])

IsHex(h) == \A i \in 1..Len(h) : h[i] \in HexDigits

\* HexBytes.hex(): the bytes with the "0x" prefix
HexOf(bytes) == Prefix0x \o bytes

\* Web3.to_bytes(hexstr=...): drops the prefix, pads an odd number of digits
\* with a leading zero, and fails with a ValueError on a non-hex character.
\* Bytes are kept as their hex digits, two per byte.
ToBytes(hexstr) ==
    LET body == IF StartsWith0x(hexstr) THEN SubSeq(hexstr, 3, Len(hexstr))
                ELSE hexstr
        even == IF Len(body) % 2 = 1 THEN <<"0">> \o body ELSE body
    IN  IF IsHex(even) THEN [ok |-> TRUE, bytes |-> even]
        ELSE [ok |-> FALSE, bytes |-> <<>>]

ByteLen(bytes) == Len(bytes) \div 2

\* uuid.uuid4().hex: 32 hex digits, a fresh value at every call
Uuid4Hex(k) == Rep(DigitOf(k), 2 * 16)

\* "0x" + uuid.uuid4().hex[:24]
FallbackDocumentId(k) == Prefix0x \o SubSeq(Uuid4Hex(k), 1, UuidPrefixLen)

\* ------------------------------------------------------------------- state
VARIABLES
    env,               \* os.getenv values read by app_lifespan
    reachable,         \* what provider.is_connected() said at line 61, if asked
    lifespan,          \* "starting", "serving" (a context was yielded),
                       \* "failed_connection" (ConnectionError re-raised),
                       \* "failed_no_yield" (the generator yielded nothing)
    lifespan_context,  \* the BlockchainContext yielded, None before and without
    task,              \* the tool calls: arguments, locals, position, result
    running,           \* the tool call that holds the event loop, if any
    txs,               \* every transaction built by sign_and_send_transaction
    confirmed,         \* the sender's transaction count at block 'latest'
    registry,          \* the registry contract's records: <<identifier, digest>>
    uuids              \* uuid4() calls made so far

vars == <<env, reachable, lifespan, lifespan_context, task, running, txs, confirmed,
          registry, uuids>>

\* ------------------------------------------------------------ configuration
\* Each item is present or absent; the private key may also be present and
\* not a key (from_key raises ValueError).  The environments of the model
\* are the complete one and those with one item absent or malformed.
CompleteEnv ==
    [DOCUMENT_REGISTRY_ADDRESS |-> TRUE,
     MCP_INTEGRATION_ADDRESS |-> TRUE,
     SEPOLIA_RPC_URL |-> TRUE,
     PRIVATE_KEY |-> "valid"]

Envs ==
    {CompleteEnv,
     [CompleteEnv EXCEPT !.DOCUMENT_REGISTRY_ADDRESS = FALSE],
     [CompleteEnv EXCEPT !.MCP_INTEGRATION_ADDRESS = FALSE],
     [CompleteEnv EXCEPT !.SEPOLIA_RPC_URL = FALSE],
     [CompleteEnv EXCEPT !.PRIVATE_KEY = "absent"],
     [CompleteEnv EXCEPT !.PRIVATE_KEY = "malformed"]}

ConfigurationComplete(e) ==
    /\ e.DOCUMENT_REGISTRY_ADDRESS
    /\ e.MCP_INTEGRATION_ADDRESS
    /\ e.SEPOLIA_RPC_URL
    /\ e.PRIVATE_KEY # "absent"

ZeroAddress == "0x0000000000000000000000000000000000000000"
McpAddress == "0xMcpIntegration"
RegistryAddress == "0xDocumentRegistry"
OtherAddress == "0xOtherContract"

\* str.lower() on the addresses of the model
AddressLower(a) ==
    CASE a = McpAddress -> "0xmcpintegration"
      [] a = RegistryAddress -> "0xdocumentregistry"
      [] a = OtherAddress -> "0xothercontract"
      [] OTHER -> a

\* lines 28-34
BlockchainContext(provider, wallet, mcp, reg) ==
    [provider |-> provider,
     wallet_address |-> wallet,
     mcp_integration_contract |-> mcp,
     document_registry_contract |-> reg]

\* lines 132-148: the context this generator function would yield when
\* iterated: a MagicMock provider and the placeholder address.
create_fallback_context_and_yield ==
    BlockchainContext([kind |-> "mock", endpoint |-> "none"], ZeroAddress,
                      "mock_contract", "mock_contract")

\* What the except clauses of lines 121-127 hand to the context manager.
\* They call the generator function and drop the generator it returns, so
\* nothing is yielded and entering the lifespan ends in
\* RuntimeError("generator didn't yield").
FallbackYielded == None

\* lines 42-130.  is_connected is provider.is_connected() at line 61.
app_lifespan_result(e, is_connected) ==
    LET addressesPresent ==
            e.DOCUMENT_REGISTRY_ADDRESS /\ e.MCP_INTEGRATION_ADDRESS
        registry_address ==
            IF addressesPresent THEN RegistryAddress ELSE ZeroAddress
        mcp_address == IF addressesPresent THEN McpAddress ELSE ZeroAddress
        endpoint == IF e.SEPOLIA_RPC_URL THEN "configured" ELSE "default"
        wallet == IF e.PRIVATE_KEY = "absent" THEN "0xRandomAccount"
                  ELSE "0xConfiguredAccount"
    IN  IF ~is_connected
        THEN \* ConnectionError, re-raised at line 120
             [state |-> "failed_connection", context |-> None]
        ELSE IF e.PRIVATE_KEY = "malformed"
        THEN \* ValueError from from_key, lines 121-123
             [state |-> IF FallbackYielded = None THEN "failed_no_yield"
                        ELSE "serving",
              context |-> FallbackYielded]
        ELSE [state |-> "serving",
              context |-> Some(BlockchainContext(
                              [kind |-> "web3", endpoint |-> endpoint],
                              wallet, mcp_address, registry_address))]

app_lifespan ==
    /\ lifespan = "starting"
    /\ \E is_connected \in BOOLEAN :
          LET r == app_lifespan_result(env, is_connected)
          IN  /\ reachable' = Some(is_connected)
              /\ lifespan' = r.state
              /\ lifespan_context' = r.context
    /\ UNCHANGED <<env, task, running, txs, confirmed, registry, uuids>>

\* ------------------------------------------------------------------ errors
\* An exception is its class, as far as the except clauses tell classes
\* apart (ValueError, or any other Exception), and what its text says.
ValueError(text) == [class |-> "ValueError", text |-> text]
OtherError(text) == [class |-> "Exception", text |-> text]

\* the errors a JSON-RPC read or write can end in
RpcErrors ==
    {ValueError("rpc error"), OtherError("endpoint unreachable")}

\* the errors eth_sendRawTransaction can end in
SendErrors ==
    {ValueError("insufficient funds"), ValueError("nonce too low"),
     OtherError("endpoint unreachable")}

\* web3's TimeExhausted, raised by wait_for_transaction_receipt
TimeExhausted == OtherError("not in the chain after 120 seconds")

\* the errors the verifyDocument call can end in
CallErrors ==
    {ValueError("execution reverted"), ValueError("rpc error"),
     OtherError("endpoint unreachable")}

\* --------------------------------------------------------------- tool calls
IdleTask ==
    [pc |-> "idle", tool |-> "none",
     document_type |-> "", requirements |-> "",
     document_id |-> <<>>, document_content |-> <<>>, document_hash |-> <<>>,
     formatted_document_id |-> <<>>,
     connected |-> None, fn |-> "none", request_id |-> None,
     gas_price |-> None, nonce |-> None, tx |-> None, receipt |-> None,
     call_result |-> None, raised |-> None, result |-> None,
     peers |-> {}]

\* the identifiers a caller passes to verify_document: what an earlier
\* generate_legal_document returned, a short prefixed one, a raw hex label,
\* a raw label that is not hex
LiteralIds ==
    {<<"0", "x", "d", "e", "a", "d">>, <<"a", "b">>, <<"d", "o", "c">>}

ReturnedIds ==
    {task[u].result[1].document_id : u \in
        {v \in Tasks : /\ task[v].pc = "done"
                       /\ task[v].tool = "generate"
                       /\ task[v].result[1].success}}

Init ==
    /\ env \in Envs
    /\ reachable = None
    /\ lifespan = "starting"
    /\ lifespan_context = None
    /\ task = [t \in Tasks |-> IdleTask]
    /\ running = {}
    /\ txs = <<>>
    /\ confirmed = 0
    /\ registry = {}
    /\ uuids = 0

\* the calls the host has received and that have not ended
Outstanding == {u \in Tasks : task[u].pc \notin {"idle", "done", "escaped"}}

\* The host receives a tool call; the coroutine waits for the event loop.
\* Calls are numbered in the order the host receives them.  peers records
\* the calls that were outstanding then.
Dispatch(t) ==
    /\ lifespan = "serving"
    /\ task[t].pc = "idle"
    /\ \A u \in Tasks : u < t => task[u].pc # "idle"
    /\ \/ \E d \in DocTypes, r \in RequirementTexts :
            task' = [task EXCEPT ![t] =
                        [@ EXCEPT !.pc = "ready", !.tool = "generate",
                                  !.document_type = d, !.requirements = r,
                                  !.peers = Outstanding]]
       \/ \E i \in LiteralIds \cup ReturnedIds, c \in Contents :
            task' = [task EXCEPT ![t] =
                        [@ EXCEPT !.pc = "ready", !.tool = "verify",
                                  !.document_id = i, !.document_content = c,
                                  !.peers = Outstanding]]
    /\ UNCHANGED <<env, reachable, lifespan, lifespan_context, running, txs, confirmed,
                   registry, uuids>>

\* ------------------------------------------------------------------- ledger
\* A transaction built by sign_and_send_transaction.  Its index in txs stands
\* for its hash.
\*   request_id: the request id a fulfillment is built with (line 266)
\*   stage: "built", "signed", "pending" (broadcast), "mined"
\*   status: the receipt's status once mined, 1 success, 0 revert
\*   wait: what the caller's wait_for_transaction_receipt ended in
Transaction(t, fn, request_id, nonce, content) ==
    [task |-> t, fn |-> fn, request_id |-> request_id, nonce |-> nonce,
     content |-> content, stage |-> "built", status |-> None,
     wait |-> "none"]

\* the identifier the contracts give the document of transaction i, 32 bytes
DocIdBytes(i) == Rep(DigitOf(i), 2 * Bytes32Len)

\* the request id the orchestration contract gives the request of transaction i
RequestIdOf(i) == i + 1

\* a uint256 as a 32-byte topic
Uint256Topic(n) == Rep("0", 2 * Bytes32Len - 1) \o <<DigitOf(n)>>

EventSignature == Rep("e", 2 * Bytes32Len)
OtherSignature == Rep("f", 2 * Bytes32Len)

\* What a successful fulfillDocumentRequest leaves in the registry: the new
\* identifier bound to the digest of the content.
RegistryAfterFulfill(reg, i, content) ==
    reg \cup {<<DocIdBytes(i), ToBytes(KeccakHex(content)).bytes>>}

\* verifyDocument(identifier, digest) of the registry contract
verifyDocument(reg, identifier, digest) == <<identifier, digest>> \in reg

\* The log entries a successful transaction i sent to the contract at
\* address mcp can carry: the event with the new id in topics[1], the same
\* event once more with another value, a second event of the same contract
\* with a third value in topics[1], an event of another contract, an event
\* with the signature topic alone.
LogEntries(i, mcp) ==
    LET main == IF txs[i].fn = "request" THEN Uint256Topic(RequestIdOf(i))
                ELSE DocIdBytes(i)
        again == IF txs[i].fn = "request" THEN Uint256Topic(RequestIdOf(0))
                 ELSE DocIdBytes(0)
        aux == Uint256Topic(0)
    IN  {[address |-> AddressLower(mcp), topics |-> <<EventSignature, main>>],
         [address |-> AddressLower(mcp), topics |-> <<EventSignature, again>>],
         [address |-> AddressLower(mcp), topics |-> <<OtherSignature, aux>>],
         [address |-> AddressLower(OtherAddress),
          topics |-> <<EventSignature, aux>>],
         [address |-> AddressLower(mcp), topics |-> <<EventSignature>>]}

SeqsUpTo(S, n) == UNION {[1..k -> S] : k \in 0..n}

\* receipt.logs of mined transaction i: nothing after a revert, nothing from
\* an address without code
ReceiptLogs(i, mcp) ==
    IF txs[i].status = Some(0) \/ mcp = ZeroAddress THEN {<<>>}
    ELSE SeqsUpTo(LogEntries(i, mcp), MaxLogs)

\* A block takes pending transaction i: the sender's count moves past its
\* nonce, with either status.
LedgerMine(i) ==
    /\ i \in 1..Len(txs)
    /\ txs[i].stage = "pending"
    /\ txs[i].nonce = confirmed
    /\ \E status \in {0, 1} :
          /\ txs' = [txs EXCEPT ![i].stage = "mined", ![i].status = Some(status)]
          /\ registry' = IF status = 1 /\ txs[i].fn = "fulfill"
                         THEN RegistryAfterFulfill(registry, i, txs[i].content)
                         ELSE registry
    /\ confirmed' = confirmed + 1
    /\ UNCHANGED <<env, reachable, lifespan, lifespan_context, task, running, uuids>>

\* ------------------------------------------------- how a tool call can end
Returned(d) == [kind |-> "return", value |-> d]
Raised(e) == [kind |-> "raise", value |-> e]

\* The call of t ends: with a result record, or with an exception that
\* leaves the tool.  The locals go; the arguments, what is_connected()
\* said, what the registry call returned and the ledger-facing error that
\* was raised inside the call (hist) stay as the record of the call.
Finished(tk, outcome, hist) ==
    [IdleTask EXCEPT
        !.pc = IF outcome.kind = "return" THEN "done" ELSE "escaped",
        !.tool = tk.tool,
        !.document_type = tk.document_type,
        !.requirements = tk.requirements,
        !.document_id = IF tk.tool = "verify" THEN tk.document_id ELSE <<>>,
        !.document_content = tk.document_content,
        !.formatted_document_id = tk.formatted_document_id,
        !.connected = tk.connected,
        !.call_result = tk.call_result,
        !.peers = tk.peers,
        !.raised = hist,
        !.result = IF outcome.kind = "return" THEN Some(outcome.value)
                   ELSE None]

\* ------------------------------------------------ generate_legal_document
\* lines 296-302
generate_result(document_id, document_content, document_hash) ==
    [success |-> TRUE,
     document_id |-> document_id,
     document_content |-> document_content,
     document_hash |-> document_hash,
     message |-> [template |-> "Document generated and registered with ID",
                  detail |-> document_id]]

\* the outer clauses logging and re-raising, as the inner clause of
\* lines 287-289 does
generate_outer_except_reraises(e) == Raised(e)

\* lines 303-316: both clauses return the same record
generate_outer_except(e) ==
    Returned([success |-> FALSE,
              message |-> [template |-> "Error generating document",
                           detail |-> e.text]])

\* lines 287-294: a ValueError goes on to the outer try; any other error is
\* replaced by a simulated identifier (the k-th uuid) and the call goes on
\* to the return of lines 296-302
generate_inner_except(tk, e, k) ==
    IF e.class = "ValueError" THEN Raised(e)
    ELSE Returned(generate_result(FallbackDocumentId(k), tk.document_content,
                                  tk.document_hash))

\* the try of line 208 around the whole tool
generate_boundary(outcome) ==
    IF outcome.kind = "raise" THEN generate_outer_except(outcome.value)
    ELSE outcome

\* lines 189-198: what sign_and_send_transaction raises to its caller
sign_and_send_except(e) ==
    IF e.class = "ValueError" /\ e.text = "insufficient funds"
    THEN ValueError("Wallet has insufficient funds")
    ELSE e

\* lines 208-246 and 283-285.  request_context is what the host hands the
\* tool; connected is provider.is_connected() at line 241.
GenerateBegin(t) ==
    /\ task[t].pc = "ready" /\ task[t].tool = "generate"
    /\ running = {}
    /\ \E request_context \in {"ok", "no_lifespan_context", "no_contract"},
          connected \in BOOLEAN :
          LET tk == task[t]
              document_content ==
                  DocumentContent(tk.document_type, tk.requirements)
              document_hash == KeccakHex(document_content)
              loc == [tk EXCEPT !.document_content = document_content,
                                !.document_hash = document_hash,
                                !.connected = Some(connected)]
          IN  IF request_context = "no_lifespan_context"
              THEN /\ task' = [task EXCEPT ![t] = Finished(tk,
                         generate_boundary(Raised(ValueError(
                             "Lifespan context not initialized"))), None)]
                   /\ UNCHANGED <<running, uuids>>
              ELSE IF request_context = "no_contract"
              THEN /\ task' = [task EXCEPT ![t] = Finished(tk,
                         generate_boundary(Raised(ValueError(
                             "MCP integration contract not initialized in context"))),
                         None)]
                   /\ UNCHANGED <<running, uuids>>
              ELSE IF connected
              THEN /\ task' = [task EXCEPT ![t] =
                                  [loc EXCEPT !.pc = "gas_price",
                                              !.fn = "request"]]
                   /\ running' = {t}
                   /\ UNCHANGED uuids
              ELSE \* mock interaction, line 285
                   /\ task' = [task EXCEPT ![t] = Finished(loc,
                         Returned(generate_result(FallbackDocumentId(uuids + 1),
                                                  document_content,
                                                  document_hash)), None)]
                   /\ uuids' = uuids + 1
                   /\ UNCHANGED running
    /\ UNCHANGED <<env, reachable, lifespan, lifespan_context, txs, confirmed, registry>>

\* An error e raised at a step of sign_and_send_transaction called from
\* generate_legal_document: through lines 189-198, 287-294 and 303-316.
GenerateAfterError(t, e) ==
    LET raised == sign_and_send_except(e)
        outcome == generate_boundary(
                       generate_inner_except(task[t], raised, uuids + 1))
    IN  /\ task' = [task EXCEPT ![t] = Finished(task[t], outcome, Some(e))]
        /\ uuids' = IF raised.class = "ValueError" THEN uuids ELSE uuids + 1
        /\ running' = {}

\* int(s, 16), which accepts the "0x" prefix
IntBase16(s) ==
    HexToInt(IF StartsWith0x(s) THEN SubSeq(s, 3, Len(s)) ELSE s)

\* line 255
LogMatches(log, mcp) ==
    Len(log.topics) > 1 /\ AddressLower(log.address) = AddressLower(mcp)

\* lines 252-257: the loop over receipt.logs, request_id its running value
RECURSIVE ExtractRequestId(_, _, _)
ExtractRequestId(logs, mcp, request_id) ==
    IF logs = <<>> THEN request_id
    ELSE ExtractRequestId(Tail(logs), mcp,
             IF LogMatches(Head(logs), mcp)
             THEN IntBase16(HexOf(Head(logs).topics[2]))
             ELSE request_id)

\* lines 274-279: the loop over receipt.logs, document_id its running value
RECURSIVE ExtractDocumentId(_, _, _)
ExtractDocumentId(logs, mcp, document_id) ==
    IF logs = <<>> THEN document_id
    ELSE ExtractDocumentId(Tail(logs), mcp,
             IF LogMatches(Head(logs), mcp) THEN HexOf(Head(logs).topics[2])
             ELSE document_id)

Ctx == lifespan_context[1]

\* --------------------------------------------- sign_and_send_transaction
\* line 160: eth.gas_price
SST_GasPrice(t) ==
    /\ task[t].pc = "gas_price"
    /\ \/ /\ task' = [task EXCEPT ![t].pc = "nonce",
                                   ![t].gas_price = Some("gas_price * 1.1")]
          /\ UNCHANGED <<running, uuids>>
       \/ \E e \in RpcErrors : GenerateAfterError(t, e)
    /\ UNCHANGED <<env, reachable, lifespan, lifespan_context, txs, confirmed, registry>>

\* line 163: eth.get_transaction_count(wallet_address), at block 'latest'
SST_Nonce(t) ==
    /\ task[t].pc = "nonce"
    /\ \/ /\ task' = [task EXCEPT ![t].pc = "build",
                                   ![t].nonce = Some(confirmed)]
          /\ UNCHANGED <<running, uuids>>
       \/ \E e \in RpcErrors : GenerateAfterError(t, e)
    /\ UNCHANGED <<env, reachable, lifespan, lifespan_context, txs, confirmed, registry>>

\* lines 166-171: eth.chain_id, then build_transaction
SST_Build(t) ==
    /\ task[t].pc = "build"
    /\ \/ /\ txs' = Append(txs, Transaction(t, task[t].fn,
                                 task[t].request_id, task[t].nonce[1],
                                 task[t].document_content))
          /\ task' = [task EXCEPT ![t].pc = "sign",
                                   ![t].tx = Some(Len(txs) + 1)]
          /\ UNCHANGED <<running, uuids>>
       \/ /\ \E e \in RpcErrors : GenerateAfterError(t, e)
          /\ UNCHANGED txs
    /\ UNCHANGED <<env, reachable, lifespan, lifespan_context, confirmed, registry>>

\* the signing whose failure lets the payload go out all the same
SST_SignFailureSends(t) ==
    /\ task[t].pc = "sign"
    /\ \/ /\ txs' = [txs EXCEPT ![task[t].tx[1]].stage = "signed"]
          /\ task' = [task EXCEPT ![t].pc = "send"]
          /\ UNCHANGED <<running, uuids>>
       \/ /\ \E e \in {ValueError("invalid key"),
                         OtherError("cannot sign transaction")} :
                GenerateAfterError(t, e)
          /\ txs' = [txs EXCEPT ![task[t].tx[1]].stage = "pending"]
    /\ UNCHANGED <<env, reachable, lifespan, lifespan_context, confirmed, registry>>

\* lines 174-177: account.sign_transaction
SST_Sign(t) ==
    /\ task[t].pc = "sign"
    /\ \/ /\ txs' = [txs EXCEPT ![task[t].tx[1]].stage = "signed"]
          /\ task' = [task EXCEPT ![t].pc = "send"]
          /\ UNCHANGED <<running, uuids>>
       \/ /\ \E e \in {ValueError("invalid key"),
                         OtherError("cannot sign transaction")} :
                GenerateAfterError(t, e)
          /\ UNCHANGED txs
    /\ UNCHANGED <<env, reachable, lifespan, lifespan_context, confirmed, registry>>

\* line 180: eth.send_raw_transaction.  The node takes a transaction whose
\* nonce is not behind the sender's count; it may refuse any.
SST_Send(t) ==
    /\ task[t].pc = "send"
    /\ \/ /\ txs[task[t].tx[1]].nonce >= confirmed
          /\ txs' = [txs EXCEPT ![task[t].tx[1]].stage = "pending"]
          /\ task' = [task EXCEPT ![t].pc = "wait"]
          /\ UNCHANGED <<running, uuids>>
       \/ /\ \E e \in SendErrors : GenerateAfterError(t, e)
          /\ UNCHANGED txs
    /\ UNCHANGED <<env, reachable, lifespan, lifespan_context, confirmed, registry>>

\* the wait with a retry: after a time-out the invocation starts over
SST_WaitRetries(t) ==
    LET i == task[t].tx[1]
        mcp == Ctx.mcp_integration_contract
    IN
    /\ task[t].pc = "wait"
    /\ \/ /\ txs[i].stage = "mined"
          /\ txs' = [txs EXCEPT ![i].wait = "receipt"]
          /\ \E logs \in ReceiptLogs(i, mcp) :
                task' = [task EXCEPT ![t].pc = "receipt",
                                     ![t].receipt = Some(logs)]
          /\ UNCHANGED <<running, uuids>>
       \/ /\ txs[i].stage = "pending"
          /\ txs' = [txs EXCEPT ![i].wait = "timeout"]
          /\ task' = [task EXCEPT ![t].pc = "gas_price",
                                  ![t].gas_price = None,
                                  ![t].nonce = None,
                                  ![t].tx = None]
          /\ UNCHANGED <<running, uuids>>
       \/ /\ txs[i].stage = "pending"
          /\ txs' = [txs EXCEPT ![i].wait = "error"]
          /\ \E e \in RpcErrors : GenerateAfterError(t, e)
    /\ UNCHANGED <<env, reachable, lifespan, lifespan_context, confirmed, registry>>

\* line 184: eth.wait_for_transaction_receipt, then line 187: the receipt
\* goes back to generate_legal_document as it is, whatever its status.
SST_Wait(t) ==
    LET i == task[t].tx[1]
        mcp == Ctx.mcp_integration_contract
    IN
    /\ task[t].pc = "wait"
    /\ \/ /\ txs[i].stage = "mined"
          /\ txs' = [txs EXCEPT ![i].wait = "receipt"]
          /\ \E logs \in ReceiptLogs(i, mcp) :
                task' = [task EXCEPT ![t].pc = "receipt",
                                     ![t].receipt = Some(logs)]
          /\ UNCHANGED <<running, uuids>>
       \/ /\ txs[i].stage = "pending"
          /\ txs' = [txs EXCEPT ![i].wait = "timeout"]
          /\ GenerateAfterError(t, TimeExhausted)
       \/ /\ txs[i].stage = "pending"
          /\ txs' = [txs EXCEPT ![i].wait = "error"]
          /\ \E e \in RpcErrors : GenerateAfterError(t, e)
    /\ UNCHANGED <<env, reachable, lifespan, lifespan_context, confirmed, registry>>

\* the steps after a receipt with the request id left at its default
GenerateAfterReceiptKeepsDefault(t) ==
    LET logs == task[t].receipt[1]
        mcp == Ctx.mcp_integration_contract
    IN
    /\ task[t].pc = "receipt"
    /\ IF task[t].fn = "request"
       THEN /\ task' = [task EXCEPT ![t] =
                  [@ EXCEPT !.pc = "gas_price",
                            !.fn = "fulfill",
                            !.request_id = Some(RequestIdDefault),
                            !.gas_price = None,
                            !.nonce = None,
                            !.tx = None,
                            !.receipt = None]]
            /\ UNCHANGED <<running, uuids>>
       ELSE /\ task' = [task EXCEPT ![t] = Finished(task[t],
                  Returned(generate_result(
                      ExtractDocumentId(logs, mcp,
                          FallbackDocumentId(uuids + 1)),
                      task[t].document_content,
                      task[t].document_hash)), None)]
            /\ uuids' = uuids + 1
            /\ running' = {}
    /\ UNCHANGED <<env, reachable, lifespan, lifespan_context, txs, confirmed,
                   registry>>

\* lines 250-257 after the request's receipt: the request id is read from
\* its logs and the fulfillment is prepared.  Lines 273-281 and 296-302
\* after the fulfillment's receipt: the document id is read from its logs
\* and the result returned.
GenerateAfterReceipt(t) ==
    LET logs == task[t].receipt[1]
        mcp == Ctx.mcp_integration_contract
    IN
    /\ task[t].pc = "receipt"
    /\ IF task[t].fn = "request"
       THEN /\ task' = [task EXCEPT ![t] =
                  [@ EXCEPT !.pc = "gas_price",
                            !.fn = "fulfill",
                            !.request_id = Some(ExtractRequestId(
                                logs, mcp, RequestIdDefault)),
                            !.gas_price = None,
                            !.nonce = None,
                            !.tx = None,
                            !.receipt = None]]
            /\ UNCHANGED <<running, uuids>>
       ELSE /\ task' = [task EXCEPT ![t] = Finished(task[t],
                  Returned(generate_result(
                      ExtractDocumentId(logs, mcp,
                          FallbackDocumentId(uuids + 1)),
                      task[t].document_content,
                      task[t].document_hash)), None)]
            /\ uuids' = uuids + 1
            /\ running' = {}
    /\ UNCHANGED <<env, reachable, lifespan, lifespan_context, txs, confirmed,
                   registry>>

\* --------------------------------------------------------- verify_document
\* the formatting without the test for the prefix
FormatAlwaysPads(document_id) ==
    Prefix0x \o Ljust(document_id, LjustWidth, "0")

\* lines 342-347
FormatDocumentId(document_id) ==
    IF StartsWith0x(document_id) THEN document_id
    ELSE Prefix0x \o Ljust(document_id, LjustWidth, "0")

\* lines 388-395
verify_result(verified, document_id, document_hash) ==
    [success |-> TRUE,
     verified |-> verified,
     document_id |-> document_id,
     document_hash |-> document_hash,
     message |-> [template |->
                     IF verified THEN "Document is authentic and unaltered."
                     ELSE "Document verification failed. The document may have been altered.",
                  detail |-> <<>>]]

\* lines 396-409: both clauses return the same record
verify_outer_except(e) ==
    Returned([success |-> FALSE,
              message |-> [template |-> "Error verifying document",
                           detail |-> e.text]])

\* lines 372-386, with verified as line 354 left it: a revert is reported
\* as not verified, another ValueError goes on to the outer try, any other
\* error leaves the simulated result in place
verify_inner_except(tk, e, verified) ==
    IF e.class = "ValueError"
    THEN IF e.text = "execution reverted"
         THEN Returned([success |-> FALSE,
                        verified |-> FALSE,
                        document_id |-> tk.document_id,
                        document_hash |-> tk.document_hash,
                        message |-> [template |-> "Document verification failed",
                                     detail |-> e.text]])
         ELSE Raised(e)
    ELSE Returned(verify_result(verified, tk.document_id, tk.document_hash))

\* the try of line 326 around the whole tool
verify_boundary(outcome) ==
    IF outcome.kind = "raise" THEN verify_outer_except(outcome.value)
    ELSE outcome

\* verified = True  # Default for testing
VerifiedDefault == TRUE

\* lines 326-360 and 370-371
VerifyBegin(t) ==
    /\ task[t].pc = "ready" /\ task[t].tool = "verify"
    /\ running = {}
    /\ \E request_context \in {"ok", "no_lifespan_context", "no_contract"},
          connected \in BOOLEAN :
          LET tk == task[t]
              document_hash == KeccakHex(tk.document_content)
              formatted == FormatDocumentId(tk.document_id)
              loc == [tk EXCEPT !.document_hash = document_hash,
                                !.formatted_document_id = formatted,
                                !.connected = Some(connected)]
              id_bytes == ToBytes(formatted)
          IN  IF request_context = "no_lifespan_context"
              THEN task' = [task EXCEPT ![t] = Finished(tk,
                       verify_boundary(Raised(ValueError(
                           "Lifespan context not initialized"))), None)]
              ELSE IF request_context = "no_contract"
              THEN task' = [task EXCEPT ![t] = Finished(tk,
                       verify_boundary(Raised(ValueError(
                           "Document registry contract not initialized in context"))),
                       None)]
              ELSE IF ~connected
              THEN task' = [task EXCEPT ![t] = Finished(loc,
                       Returned(verify_result(VerifiedDefault, tk.document_id,
                                              document_hash)), None)]
              ELSE IF ~id_bytes.ok
              THEN task' = [task EXCEPT ![t] = Finished(loc,
                       verify_boundary(verify_inner_except(loc,
                           ValueError("Non-hexadecimal digit found"),
                           VerifiedDefault)), None)]
              ELSE task' = [task EXCEPT ![t] = [loc EXCEPT !.pc = "call"]]
    /\ running' = IF task'[t].pc = "call" THEN {t} ELSE {}
    /\ UNCHANGED <<env, reachable, lifespan, lifespan_context, txs, confirmed, registry,
                   uuids>>

\* A value handed to a bytes32 parameter: 32 bytes go through; fewer are
\* refused by strict type checking or zero-padded on the right without it;
\* more are refused.
Bytes32Arguments(bytes) ==
    IF ByteLen(bytes) = Bytes32Len THEN {Some(bytes)}
    ELSE IF ByteLen(bytes) < Bytes32Len
    THEN {None, Some(Ljust(bytes, 2 * Bytes32Len, "0"))}
    ELSE {None}

\* lines 359-369 and 372-395: what the verifyDocument call and the handlers
\* around it do to the tool call
VerifyCallOutcome(t) ==
    LET tk == task[t]
        document_id_bytes == ToBytes(tk.formatted_document_id).bytes
        document_hash_bytes == ToBytes(tk.document_hash).bytes
    IN
    /\ tk.pc = "call"
    /\ \/ \E arg \in Bytes32Arguments(document_id_bytes) :
            IF arg = None
            THEN task' = [task EXCEPT ![t] = Finished(tk,
                     verify_boundary(verify_inner_except(tk,
                         OtherError("not a bytes32 value"), VerifiedDefault)),
                     Some(OtherError("not a bytes32 value")))]
            ELSE LET verified ==
                         verifyDocument(registry, arg[1], document_hash_bytes)
                 IN  task' = [task EXCEPT ![t] = Finished(
                         [tk EXCEPT !.call_result = Some(verified)],
                         Returned(verify_result(verified, tk.document_id,
                                                tk.document_hash)), None)]
       \/ \E e \in CallErrors :
            task' = [task EXCEPT ![t] = Finished(tk,
                verify_boundary(verify_inner_except(tk, e, VerifiedDefault)),
                Some(e))]
    /\ running' = {}

\* the call as a transaction: .transact() in place of .call()
VerifyCallTransacts(t) ==
    /\ VerifyCallOutcome(t)
    /\ txs' = Append(txs, [Transaction(t, "verify", None, confirmed,
                                       task[t].document_content)
                              EXCEPT !.stage = "pending"])
    /\ UNCHANGED <<env, reachable, lifespan, lifespan_context, confirmed, registry,
                   uuids>>

\* lines 362-367: verifyDocument(...).call(), a view function called
\* without a transaction
VerifyCall(t) ==
    /\ VerifyCallOutcome(t)
    /\ UNCHANGED <<env, reachable, lifespan, lifespan_context, txs, confirmed, registry,
                   uuids>>

\* ------------------------------------------------------------ specification
Next ==
    \/ app_lifespan
    \/ \E t \in Tasks : Dispatch(t)
    \/ \E t \in Tasks : GenerateBegin(t)
    \/ \E t \in Tasks : SST_GasPrice(t)
    \/ \E t \in Tasks : SST_Nonce(t)
    \/ \E t \in Tasks : SST_Build(t)
    \/ \E t \in Tasks : SST_Sign(t)
    \/ \E t \in Tasks : SST_Send(t)
    \/ \E t \in Tasks : SST_Wait(t)
    \/ \E t \in Tasks : GenerateAfterReceipt(t)
    \/ \E t \in Tasks : VerifyBegin(t)
    \/ \E t \in Tasks : VerifyCall(t)
    \/ \E i \in 1..Len(txs) : LedgerMine(i)

Spec == Init /\ [][Next]_vars

\* ------------------------------------------- verify_document on its inputs
\* The identifiers given to verify_document: up to MaxPrefixLen characters
\* out of "0", "x", a hex digit and a letter that is none, followed by no
\* hex digits or by enough of them to end around the width of line 347.
IdAlphabet == {"0", "x", "a", "g"}
IdBodyLens == {0} \cup ((LjustWidth - MaxPrefixLen)..(LjustWidth + 1))
VerifyIds ==
    LiteralIds \cup {p \o Rep("a", n) : p \in SeqsUpTo(IdAlphabet, MaxPrefixLen),
                                      n \in IdBodyLens}

\* The server is up with its full configuration, nothing is registered, and
\* every call the host has received is verify_document of one identifier.
VerifyInit ==
    /\ env = CompleteEnv
    /\ reachable = Some(TRUE)
    /\ lifespan = "serving"
    /\ lifespan_context = app_lifespan_result(CompleteEnv, TRUE).context
    /\ \E i \in VerifyIds, c \in Contents :
          task = [t \in Tasks |->
                    [IdleTask EXCEPT !.pc = "ready", !.tool = "verify",
                                     !.document_id = i,
                                     !.document_content = c,
                                     !.peers = {u \in Tasks : u < t}]]
    /\ running = {}
    /\ txs = <<>>
    /\ confirmed = 0
    /\ registry = {}
    /\ uuids = 0

VerifyNext ==
    \/ \E t \in Tasks : VerifyBegin(t)
    \/ \E t \in Tasks : VerifyCall(t)

VerifySpec == VerifyInit /\ [][VerifyNext]_vars

\* ------------------------------------------------------------------- claims
Broadcast(i) == txs[i].stage \in {"pending", "mined"}

\* the lifetimes of calls t and u overlap
Concurrent(t, u) ==
    t # u /\ (u \in task[t].peers \/ t \in task[u].peers)

Ended(t) == task[t].pc = "done"
Result(t) == task[t].result[1]

\* C1: two generate_legal_document calls that run concurrently against the
\* same context never have two broadcast transactions with the same nonce.
C1_DistinctNonces ==
    \A i, j \in 1..Len(txs) :
        (/\ i < j
         /\ Broadcast(i) /\ Broadcast(j)
         /\ Concurrent(txs[i].task, txs[j].task))
        => txs[i].nonce # txs[j].nonce

\* C2: after generate_legal_document returned success with identifier i and
\* content c, verify_document(i, c) returns verified = true (stated for the
\* calls in which the registry answered).
C2_RoundTripVerifies ==
    \A g, v \in Tasks :
        (/\ Ended(g) /\ task[g].tool = "generate" /\ Result(g).success
         /\ Ended(v) /\ task[v].tool = "verify"
         /\ task[v].call_result # None
         /\ task[v].document_id = Result(g).document_id
         /\ task[v].document_content = Result(g).document_content)
        => /\ "verified" \in DOMAIN Result(v)
           /\ Result(v).verified

\* C3: verify_document returns verified = true only when the registry's
\* verifyDocument call returned true; never when the provider is not
\* connected or the call raised.
C3_VerifiedOnlyByContract ==
    \A v \in Tasks :
        (/\ Ended(v) /\ task[v].tool = "verify"
         /\ "verified" \in DOMAIN Result(v)
         /\ Result(v).verified)
        => task[v].call_result = Some(TRUE)

\* what a generate_legal_document message says
SaysRegistered(m) == m.template = "Document generated and registered with ID"
SaysFailed(m) == m.template = "Error generating document"

TimedOut(t) ==
    \E i \in 1..Len(txs) : txs[i].task = t /\ txs[i].wait = "timeout"

\* C4: when the confirmation wait timed out after the broadcast, the result
\* of generate_legal_document is reported neither as a failed transaction
\* nor as a completed registration.
C4_TimeoutReportedAsUnknown ==
    \A t \in Tasks :
        (Ended(t) /\ TimedOut(t))
        => /\ ~SaysRegistered(Result(t).message)
           /\ ~SaysFailed(Result(t).message)

\* C5: with the endpoint unreachable at startup, app_lifespan yields the
\* degraded context with the placeholder address instead of failing.
C5_UnreachableYieldsDegraded ==
    reachable = Some(FALSE)
    => /\ lifespan = "serving"
       /\ lifespan_context = Some(create_fallback_context_and_yield)

\* C6: with a configuration item absent, app_lifespan produces the degraded
\* context, and no transaction is signed or broadcast to a real endpoint.
C6_MissingConfigurationDegrades ==
    ~ConfigurationComplete(env)
    => /\ lifespan # "starting"
          => lifespan_context = Some(create_fallback_context_and_yield)
       /\ \A i \in 1..Len(txs) : txs[i].stage = "built"

\* a step of verify_document call t
VerifyStep(t) ==
    /\ task[t].tool = "verify"
    /\ task[t].pc \in {"ready", "call"}
    /\ task'[t].pc # task[t].pc

\* C7: no step of verify_document changes the ledger: it builds and
\* broadcasts no transaction, reads no nonce, and leaves the sender's
\* transaction count and the registry's records as they were.
C7_VerifyLeavesLedgerUnchanged ==
    [][\A t \in Tasks :
          VerifyStep(t)
          => /\ UNCHANGED <<txs, confirmed, registry>>
             /\ task'[t].nonce = None /\ task'[t].tx = None]_vars

\* a verify_document call found its document in a registry that the
\* sender's transactions had filled
C7_Witness ==
    \E v \in Tasks :
        /\ Ended(v) /\ task[v].tool = "verify"
        /\ task[v].call_result = Some(TRUE)
        /\ confirmed > 0 /\ registry # {}

Reverted(i) == txs[i].status = Some(0)

\* C8: a reverted receipt that the wait obtained is not treated as success:
\* generate_legal_document does not broadcast the fulfill transaction after
\* a reverted request and does not return success for a reverted
\* transaction.
C8_RevertIsNeverSuccess ==
    \A i \in 1..Len(txs) :
        (Reverted(i) /\ txs[i].wait = "receipt")
        => /\ \A j \in 1..Len(txs) :
                 ~(/\ txs[j].task = txs[i].task
                   /\ txs[i].fn = "request" /\ txs[j].fn = "fulfill"
                   /\ Broadcast(j))
           /\ (Ended(txs[i].task) /\ task[txs[i].task].raised = None)
              => ~Result(txs[i].task).success

\* C9: a call of generate_legal_document or verify_document inside which a
\* ledger-facing step raised ends with success = false and a message.
C9_LedgerFailureIsReported ==
    \A t \in Tasks :
        (Ended(t) /\ task[t].raised # None)
        => /\ ~Result(t).success
           /\ "message" \in DOMAIN Result(t)

\* C10: no call ends by an exception leaving the tool; every call that has
\* ended returned a record with a success flag and a message.
C10_NoErrorEscapes ==
    \A t \in Tasks :
        /\ task[t].pc # "escaped"
        /\ Ended(t)
           => /\ task[t].result # None
              /\ {"success", "message"} \subseteq DOMAIN Result(t)
              /\ Result(t).success \in BOOLEAN

\* both tools ended in the failure record after an error they caught
C10_Witness ==
    \E g, v \in Tasks :
        /\ Ended(g) /\ task[g].tool = "generate"
        /\ task[g].raised # None /\ ~Result(g).success
        /\ Ended(v) /\ task[v].tool = "verify"
        /\ task[v].raised # None /\ ~Result(v).success

\* an entry of the owner contract that carries the field and whose first
\* topic is the event's signature
EventMatches(log, mcp) ==
    LogMatches(log, mcp) /\ log.topics[1] = EventSignature

\* the field of the earliest such entry, None without one
RECURSIVE FirstEvent(_, _)
FirstEvent(logs, mcp) ==
    IF logs = <<>> THEN None
    ELSE IF EventMatches(Head(logs), mcp) THEN Some(Head(logs).topics[2])
    ELSE FirstEvent(Tail(logs), mcp)

\* C11: the request id and the document id generate_legal_document takes
\* from a receipt are the field of the earliest log entry of the owner
\* contract whose signature topic is the event's; entries with another
\* signature are not considered, so without such an entry the default
\* request id or a fallback document id is taken.
C11_FirstSignatureMatchTaken ==
    [][\A t \in Tasks :
         (task[t].pc = "receipt" /\ task'[t].pc # "receipt") =>
            LET first == FirstEvent(task[t].receipt[1],
                                    Ctx.mcp_integration_contract)
            IN  IF task[t].fn = "request"
                THEN task'[t].request_id =
                         IF first = None THEN Some(RequestIdDefault)
                         ELSE Some(IntBase16(HexOf(first[1])))
                ELSE task'[t].result[1].document_id =
                         IF first = None THEN FallbackDocumentId(uuids')
                         ELSE HexOf(first[1])]_vars

\* a document id made locally at line 274, 285 or 293
IsFallbackId(document_id) ==
    \E k \in 0..uuids : document_id = FallbackDocumentId(k)

\* C12: when the document_id generate_legal_document returns is a locally
\* generated fallback, the returned message does not say the document was
\* registered.
C12_FallbackNotCalledRegistered ==
    \A g \in Tasks :
        (/\ Ended(g) /\ task[g].tool = "generate" /\ Result(g).success
         /\ IsFallbackId(Result(g).document_id))
        => ~SaysRegistered(Result(g).message)

\* the transactions built by call t
TxsOf(t) == {i \in 1..Len(txs) : txs[i].task = t}

\* C13: nothing is retried.  One generate_legal_document call broadcasts at
\* most two transactions; of two transactions of one call the earlier is the
\* request, whose receipt was obtained, and the later the fulfillment, so an
\* invocation of sign_and_send_transaction builds and broadcasts at most one
\* payload and nothing is built after a failed broadcast or wait.
C13_NoRetry ==
    \A t \in Tasks :
        /\ Cardinality({i \in TxsOf(t) : Broadcast(i)}) <= 2
        /\ \A i, j \in TxsOf(t) :
              i < j => /\ txs[i].fn = "request"
                       /\ txs[j].fn = "fulfill"
                       /\ txs[i].wait = "receipt"

\* one call broadcast its request and its fulfillment, and another ended
\* after the wait for its broadcast transaction timed out, the transaction
\* being mined since
C13_Witness ==
    \E t, u \in Tasks :
        /\ Cardinality({i \in TxsOf(t) : Broadcast(i)}) = 2
        /\ Ended(u)
        /\ \E i \in TxsOf(u) :
              txs[i].wait = "timeout" /\ txs[i].stage = "mined"

\* the calls of verify_document that formatted their identifier
Formatted(t) ==
    task[t].tool = "verify" /\ task[t].formatted_document_id # <<>>

\* C14: the formatting of the identifier in verify_document is idempotent,
\* formatting a formatted identifier gives it back, and two calls with the
\* same document_id work with the same formatted identifier.
C14_FormatIdempotent ==
    \A t \in Tasks :
        Formatted(t) =>
            /\ FormatDocumentId(task[t].formatted_document_id)
                   = task[t].formatted_document_id
            /\ \A u \in Tasks :
                  (Formatted(u) /\ task[u].document_id = task[t].document_id)
                  => task[u].formatted_document_id
                         = task[t].formatted_document_id

\* two calls ended with an identifier that got the prefix and the padding
C14_Witness ==
    \E t, u \in Tasks :
        /\ t # u /\ Ended(t) /\ Ended(u)
        /\ Formatted(t) /\ Formatted(u)
        /\ ~StartsWith0x(task[t].document_id)
        /\ Len(task[t].formatted_document_id) > Len(task[t].document_id)

\* C15: the formatted identifier verify_document passes to the registry
\* call encodes exactly 32 bytes, whatever the document_id: a short one is
\* padded, with or without the prefix, and a long one cut.
C15_FormattedIs32Bytes ==
    \A t \in Tasks :
        (task[t].tool = "verify" /\ task[t].pc = "call")
        => ByteLen(ToBytes(task[t].formatted_document_id).bytes) = Bytes32Len

\* the number of bytes a hex string stands for
HexByteLen(hexstr) == ByteLen(ToBytes(hexstr).bytes)

\* C16: every successful result of generate_legal_document carries a
\* document identifier of 32 bytes and a document digest of 32 bytes.
C16_ResultIdAndDigest32Bytes ==
    \A g \in Tasks :
        (Ended(g) /\ task[g].tool = "generate" /\ Result(g).success)
        => /\ HexByteLen(Result(g).document_id) = Bytes32Len
           /\ HexByteLen(Result(g).document_hash) = Bytes32Len

\* the sender's pending transaction count: the confirmed transactions and
\* those broadcast that a block can still take
PendingCount ==
    confirmed
    + Cardinality({txs[i].nonce : i \in {j \in 1..Len(txs) :
                       txs[j].stage = "pending" /\ txs[j].nonce >= confirmed}})

\* C17: the nonce of every transaction sign_and_send_transaction builds is
\* the sender's pending transaction count at build time, so the nonce of a
\* transaction broadcast earlier and not mined yet is not used again.
C17_NonceIsPendingCount ==
    [][\A t \in Tasks :
         (task[t].pc = "build" /\ task'[t].pc = "sign")
         => txs'[task'[t].tx[1]].nonce = PendingCount]_vars

\* where call t stands in sign_and_send_transaction, against what it has
\* read and built so far
StepsDoneBefore(t) ==
    LET tk == task[t]
    IN  /\ tk.pc = "gas_price" =>
              tk.gas_price = None /\ tk.nonce = None /\ tk.tx = None
        /\ tk.pc = "nonce" =>
              tk.gas_price # None /\ tk.nonce = None /\ tk.tx = None
        /\ tk.pc = "build" =>
              tk.gas_price # None /\ tk.nonce # None /\ tk.tx = None
        /\ tk.pc = "sign" =>
              /\ tk.gas_price # None /\ tk.tx # None
              /\ txs[tk.tx[1]].stage = "built"
              /\ txs[tk.tx[1]].nonce = tk.nonce[1]
        /\ tk.pc = "send" => tk.tx # None /\ txs[tk.tx[1]].stage = "signed"
        /\ tk.pc = "wait" => tk.tx # None /\ Broadcast(tk.tx[1])

\* call t ends at a step before the broadcast
FailsBeforeBroadcast(t) ==
    /\ task[t].pc \in {"gas_price", "nonce", "build", "sign"}
    /\ task'[t].pc \in {"done", "escaped"}

\* transaction i is broadcast in this step
NewlyBroadcast(i) ==
    /\ txs'[i].stage \in {"pending", "mined"}
    /\ ~(i <= Len(txs) /\ Broadcast(i))

\* C18: sign_and_send_transaction reads the gas price, reads the nonce,
\* builds, signs, broadcasts and waits, in this order: a transaction is
\* broadcast only by the call that holds it signed; and when the gas-price
\* read, the nonce read, the build or the signing fails, the error is
\* raised to the caller and the invocation has broadcast nothing.
C18_StepsInOrder ==
    /\ [](\A t \in Tasks : StepsDoneBefore(t))
    /\ [][/\ \A i \in 1..Len(txs') :
                NewlyBroadcast(i) =>
                   /\ i <= Len(txs)
                   /\ txs[i].stage = "signed"
                   /\ task[txs[i].task].pc = "send"
                   /\ task[txs[i].task].tx = Some(i)
          /\ \A t \in Tasks :
                FailsBeforeBroadcast(t) =>
                   /\ task'[t].raised # None
                   /\ \A i \in 1..Len(txs') :
                         (txs'[i].task = t /\ txs'[i].fn = task[t].fn)
                         => txs'[i].stage \in {"built", "signed"}]_vars

\* a call ended after its signing failed, its transaction built and never
\* broadcast, while another transaction was broadcast
C18_Witness ==
    \E t \in Tasks :
        /\ Ended(t) /\ task[t].raised # None
        /\ \E i \in TxsOf(t) : txs[i].stage = "built"
        /\ \E j \in 1..Len(txs) : Broadcast(j)

\* the request ids the entries of logs offer
OfferedRequestIds(logs, mcp) ==
    {IntBase16(HexOf(logs[k].topics[2])) :
        k \in {n \in 1..Len(logs) : LogMatches(logs[n], mcp)}}

\* the request transaction of the call of fulfillment j
RequestOf(j) ==
    {i \in TxsOf(txs[j].task) : i < j /\ txs[i].fn = "request"}

\* C19: in one generate_legal_document call the fulfillment is built, and so
\* broadcast, only after the receipt of the request was obtained: a request
\* that raised at any step leaves no fulfillment.  The fulfillment carries
\* the request id the call read from the logs of that receipt, or the
\* default when no entry matches.
C19_FulfillAfterRequestReceipt ==
    /\ [](\A j \in 1..Len(txs) :
            txs[j].fn = "fulfill" =>
               /\ \E i \in RequestOf(j) : txs[i].wait = "receipt"
               /\ txs[j].request_id # None
               /\ task[txs[j].task].tx = Some(j)
                      => txs[j].request_id = task[txs[j].task].request_id)
    /\ [][\A t \in Tasks :
            (task[t].pc = "receipt" /\ task[t].fn = "request"
             /\ task'[t].pc # "receipt")
            => LET offered == OfferedRequestIds(task[t].receipt[1],
                                  Ctx.mcp_integration_contract)
               IN  /\ task'[t].fn = "fulfill"
                   /\ task'[t].request_id # None
                   /\ task'[t].request_id[1] \in
                         (IF offered = {} THEN {RequestIdDefault}
                          ELSE offered)]_vars

\* a fulfillment was broadcast with a request id read from the logs, and
\* another call ended at a failed wait for its request
C19_Witness ==
    \E j \in 1..Len(txs) :
        /\ txs[j].fn = "fulfill" /\ Broadcast(j)
        /\ txs[j].request_id # Some(RequestIdDefault)
        /\ \E u \in Tasks :
              /\ Ended(u) /\ u # txs[j].task
              /\ \E i \in TxsOf(u) : txs[i].wait \in {"timeout", "error"}
              /\ \A i \in TxsOf(u) : txs[i].fn = "request"
====
